---- MODULE Spec2Model ----
(***************************************************************************)
(* Order lifecycle and cancellation engine of the Laundry-Care-System      *)
(* backend: routes guarded by role_required, the customer / worker / admin *)
(* order services and cancel_order.                                        *)
(*                                                                         *)
(* Time is counted in whole hours.  A datetime is a record                 *)
(* [wall, aware, off]: its wall-clock reading, whether it carries tzinfo   *)
(* and its UTC offset.  DateTime columns are declared without timezone, so *)
(* a stored timestamp keeps its wall-clock reading only.                   *)
(***************************************************************************)
EXTENDS Integers, Sequences, FiniteSets, TLC

\* ---------------------------------------------------------------- bounds
MaxOrders == 1
MaxNow == 3
MaxAddresses == 2

\* ------------------------------------------------------------ population
Null == 0
Customers == {1, 2}
Workers == {3, 4}
Admins == {5}
Users == Customers \cup Workers \cup Admins
OrderIds == 1..MaxOrders

\* ----------------------------------------------------------------- enums
RoleNames == {"customer", "worker", "admin"}
OrderStatus ==
    {"created", "claimed", "picked_up", "in_progress", "delivered",
     "completed", "cancelled"}
StatusInputs == OrderStatus \cup {"bogus", "Delivered"}

\* str.lower() on the status strings a request carries
Lower(s) ==
    IF s = "Delivered" THEN "delivered"
    ELSE IF s = "Admin" THEN "admin"
    ELSE IF s = "WORKER" THEN "worker"
    ELSE s

\* A Python value is tagged with its type: a str and an Enum member that
\* carry the same name are different values.
Str(s) == [kind |-> "str", v |-> s]
UserRole(n) == [kind |-> "UserRole", v |-> n]

RoleOf(u) ==
    IF u \in Customers THEN UserRole("customer")
    ELSE IF u \in Workers THEN UserRole("worker")
    ELSE UserRole("admin")

\* login_user puts user.role.value, a str, in the token
TokenRole(u) == Str(RoleOf(u).v)

\* ------------------------------------------------------------- datetimes
KarachiOffset == 5
GraceHours == 1

Naive(w) == [wall |-> w, aware |-> FALSE, off |-> 0]
Aware(w, o) == [wall |-> w, aware |-> TRUE, off |-> o]
ReplaceTz(dt, o) == [wall |-> dt.wall, aware |-> TRUE, off |-> o]
AsUtc(dt) == [wall |-> dt.wall - dt.off, aware |-> TRUE, off |-> 0]
UtcNow(n) == Aware(n, 0)

\* datetime comparison: aware values compare by instant, naive ones by
\* wall clock, a mix raises TypeError
Comparable(a, b) == a.aware = b.aware
Key(dt) == IF dt.aware THEN dt.wall - dt.off ELSE dt.wall
DtLe(a, b) == Key(a) <= Key(b)
DtGt(a, b) == Key(a) > Key(b)

\* db.DateTime column: written without zone, read back naive
Stored(dt) == dt.wall
Loaded(w) == Naive(w)

PickupWalls == {7}
Zones == {Naive(0), Aware(0, 0), Aware(0, KarachiOffset)}
MkDt(w, z) == [wall |-> w, aware |-> z.aware, off |-> z.off]
Prices == {-100, 100}

\* address_id values a create-order payload carries
AddressInputs == {1}

\* core.constants: constants.fee_percentage
fee_percentage == 10

\* --------------------------------------------------------------- accounts
\* sample strings of signup and create-admin requests
Emails == {"ann@x.io", "bob@x.io", "c1@x.io", "ann.x.io"}
Phones == {"03001234567", "+923001234567", "03000000001", "12345"}
Passwords == {"Passw0rd!", "password"}
SignupRoles == {"customer", "WORKER", "admin", "manager"}

\* the sample strings that re.match accepts for each pattern
EMAIL_PATTERN == {"ann@x.io", "bob@x.io", "c1@x.io"}
PHONE_PATTERN == {"03001234567", "+923001234567", "03000000001"}
PASSWORD_PATTERN == {"Passw0rd!"}

\* werkzeug's generate_password_hash of a str
generate_password_hash(password) == [hash |-> password]

\* an Enum(UserRole) column takes a member or the name of one and gives
\* the member back
EnumColumn(role) == UserRole(role.v)

\* the five users of the population, with their profile rows
PopulationEmail ==
    <<"c1@x.io", "c2@x.io", "w3@x.io", "w4@x.io", "admin@x.io">>
PopulationPhone ==
    <<"03000000001", "03000000002", "03000000003", "03000000004",
      "03000000005">>
Population ==
    [user |-> [u \in 1..5 |->
                  [email |-> PopulationEmail[u],
                   phone |-> PopulationPhone[u],
                   password |-> generate_password_hash("Passw0rd!"),
                   role |-> RoleOf(u)]],
     customer |-> Customers,
     worker |-> Workers]

VARIABLES
    orders,          \* Order table: sequence of rows, id = index
    assigned,        \* Customer.assigned_worker_id
    now,             \* current instant (UTC hours)
    last,            \* the last request and its outcome
    call,            \* in-flight claim_order calls, per worker
    addresses,       \* Customer.addresses: address ids per customer
    history,         \* OrderStatusHistory table
    txn,             \* in-flight update and cancel calls, per session
    accounts         \* User, Customer and Worker tables

vars == <<orders, assigned, now, last, call, addresses, history, txn, accounts>>

Idle == [pc |-> "idle", order |-> Null, res |-> "none"]

\* database sessions of two requests that run at the same time
Sessions == {1, 2}
NoTxn == [pc |-> "idle"]

Init ==
    /\ orders = <<>>
    /\ assigned = [c \in Customers |-> Null]
    /\ now = 0
    /\ last = [op |-> "init", user |-> Null, order |-> Null, res |-> "ok",
               field |-> "none", rows |-> {}]
    /\ call = [w \in Workers |-> Idle]
    /\ addresses = [c \in Customers |-> IF c = 1 THEN <<1>> ELSE <<>>]
    /\ history = <<>>
    /\ txn = [s \in Sessions |-> NoTxn]
    /\ accounts = Population

\* the outcome of a request; field is the field= of a ValidationError
DoneField(op, u, o, r, f) ==
    last' = [op |-> op, user |-> u, order |-> o, res |-> r, field |-> f,
             rows |-> {}]

\* the outcome of a listing request: the ids of the orders it returns
DoneRows(op, u, rows) ==
    last' = [op |-> op, user |-> u, order |-> Null, res |-> "ok",
             field |-> "none", rows |-> rows]

Done(op, u, o, r) == DoneField(op, u, o, r, "none")

\* role_required comparing the configured names as they are written
role_required_case_sensitive(roles, user_role) ==
    IF \E r \in roles : r \notin RoleNames THEN "400"
    ELSE IF user_role \notin {Str(r) : r \in roles} THEN "403"
    ELSE "pass"

\* role_required accepting any role claim that names a role
role_required_any_known_role(roles, user_role) ==
    IF \E r \in roles : Lower(r) \notin RoleNames THEN "400"
    ELSE IF user_role \notin {Str(r) : r \in RoleNames} THEN "403"
    ELSE "pass"

\* role_required letting every caller through
role_required_no_check(roles, user_role) ==
    IF \E r \in roles : Lower(r) \notin RoleNames THEN "400"
    ELSE "pass"

\* role_required(*roles): "400" for a bad configured name, "403" when the
\* claim is not allowed, otherwise the wrapped function is called
role_required(roles, user_role) ==
    IF \E r \in roles : Lower(r) \notin RoleNames THEN "400"
    ELSE IF user_role \notin {Str(Lower(r)) : r \in roles} THEN "403"
    ELSE "pass"

Exists(o) == o \in 1..Len(orders)

NewOrder(c, w, p, d, price, address_id, created_by) ==
    [customer_id |-> c, worker_id |-> w, address_id |-> address_id,
     created_by |-> created_by,
     pickup_time |-> Stored(p), delivery_time |-> Stored(d),
     status |-> "created", price |-> price, cancellation_fee |-> 0]

Fail(op, u, o, r) ==
    /\ Done(op, u, o, r)
    /\ UNCHANGED <<orders, assigned>>

FailField(op, u, o, r, f) ==
    /\ DoneField(op, u, o, r, f)
    /\ UNCHANGED <<orders, assigned>>

\* ------------------------------------------------------- customer service
\* create_order_for_customer comparing delivery with pickup first
customer_create_order_delivery_first(customer_id, pickup, delivery, price, address_id) ==
    LET p == IF ~pickup.aware THEN ReplaceTz(pickup, 0) ELSE pickup
        d == IF ~delivery.aware THEN ReplaceTz(delivery, 0) ELSE delivery
    IN  IF DtLe(d, p)
        THEN FailField("create", customer_id, Null, "ValidationError",
                       "delivery_time")
        ELSE IF DtLe(p, UtcNow(now))
        THEN FailField("create", customer_id, Null, "ValidationError",
                       "pickup_time")
        ELSE /\ orders' = Append(orders,
                    NewOrder(customer_id, Null, p, d, price, address_id,
                             customer_id))
             /\ Done("create", customer_id, Len(orders) + 1, "ok")
             /\ UNCHANGED assigned

\* customer_service.create_order_for_customer
customer_create_order(customer_id, pickup, delivery, price, address_id) ==
    LET p == IF ~pickup.aware THEN ReplaceTz(pickup, 0) ELSE pickup
        d == IF ~delivery.aware THEN ReplaceTz(delivery, 0) ELSE delivery
    IN  IF DtLe(p, UtcNow(now))
        THEN FailField("create", customer_id, Null, "ValidationError",
                       "pickup_time")
        ELSE IF DtLe(d, p)
        THEN FailField("create", customer_id, Null, "ValidationError",
                       "delivery_time")
        ELSE /\ orders' = Append(orders,
                    NewOrder(customer_id, Null, p, d, price, address_id,
                             customer_id))
             /\ Done("create", customer_id, Len(orders) + 1, "ok")
             /\ UNCHANGED assigned

\* list_customer_orders returning every order
list_customer_orders_unfiltered(customer_id) ==
    DOMAIN orders

\* customer_service.list_customer_orders: the ids of the rows it returns
list_customer_orders(customer_id) ==
    {o \in DOMAIN orders : orders[o].customer_id = customer_id}

\* number of rows of the Address table
AddressCount ==
    LET RECURSIVE Sum(_)
        Sum(S) == IF S = {} THEN 0
                  ELSE LET c == CHOOSE x \in S : TRUE
                       IN  Len(addresses[c]) + Sum(S \ {c})
    IN  Sum(Customers)

\* customer_service.create_customer_address
create_customer_address(customer_id) ==
    /\ addresses' = [addresses EXCEPT
            ![customer_id] = Append(@, AddressCount + 1)]
    /\ Done("address", customer_id, Null, "ok")
    /\ UNCHANGED <<orders, assigned>>

\* -------------------------------------------------------- worker service
\* claim_order with the worker_id filter left out of its query
ClaimQueryAnyWorker(order_id) ==
    Exists(order_id)

\* claim_order filtering on the status instead of the worker_id
ClaimQueryByStatus(order_id) ==
    Exists(order_id) /\ orders[order_id].status = "created"

\* list_unclaimed_orders filtering on the worker_id alone
list_unclaimed_orders_any_status ==
    {o \in DOMAIN orders : orders[o].worker_id = Null}

\* worker_service.list_unclaimed_orders: the ids of the rows it returns
list_unclaimed_orders ==
    {o \in DOMAIN orders :
        orders[o].worker_id = Null /\ orders[o].status = "created"}

\* worker_service.claim_order, the query of line 44
ClaimQuery(order_id) ==
    Exists(order_id) /\ orders[order_id].worker_id = Null

\* claim_order setting the status and leaving worker_id as it was
ClaimWriteRowStatusOnly(worker_id, order_id) ==
    [orders EXCEPT ![order_id].status = "claimed"]

\* worker_service.claim_order, the assignments and commit of lines 49-51
ClaimWriteRow(worker_id, order_id) ==
    [orders EXCEPT ![order_id].worker_id = worker_id,
                   ![order_id].status = "claimed"]

\* claim_order telling a claimed order from a missing one
claim_order_reporting_claimed(worker_id, order_id) ==
    IF ~Exists(order_id)
    THEN Fail("claim", worker_id, order_id, "NotFoundError")
    ELSE IF orders[order_id].worker_id # Null
    THEN Fail("claim", worker_id, order_id, "AlreadyClaimed")
    ELSE /\ orders' = ClaimWriteRow(worker_id, order_id)
         /\ Done("claim", worker_id, order_id, "ok")
         /\ UNCHANGED assigned

claim_order(worker_id, order_id) ==
    IF ~ClaimQuery(order_id)
    THEN Fail("claim", worker_id, order_id, "NotFoundError")
    ELSE /\ orders' = ClaimWriteRow(worker_id, order_id)
         /\ Done("claim", worker_id, order_id, "ok")
         /\ UNCHANGED assigned

\* update_order_status looking the order up by id alone
update_order_status_any_worker(worker_id, order_id, status) ==
    IF ~Exists(order_id)
    THEN Fail("update", worker_id, order_id, "NotFoundError")
    ELSE IF Lower(status) \notin OrderStatus
    THEN FailField("update", worker_id, order_id, "ValidationError",
                   "status")
    ELSE /\ orders' = [orders EXCEPT ![order_id].status = Lower(status)]
         /\ Done("update", worker_id, order_id, "ok")
         /\ UNCHANGED assigned

\* update_order_status storing the status string as it came
update_order_status_unparsed(worker_id, order_id, status) ==
    IF ~(Exists(order_id) /\ orders[order_id].worker_id = worker_id)
    THEN Fail("update", worker_id, order_id, "NotFoundError")
    ELSE /\ orders' = [orders EXCEPT ![order_id].status = Lower(status)]
         /\ Done("update", worker_id, order_id, "ok")
         /\ UNCHANGED assigned

\* update_order_status stamping the delivery time on a delivered order
update_order_status_stamping_delivery(worker_id, order_id, status) ==
    IF ~(Exists(order_id) /\ orders[order_id].worker_id = worker_id)
    THEN Fail("update", worker_id, order_id, "NotFoundError")
    ELSE IF Lower(status) \notin OrderStatus
    THEN FailField("update", worker_id, order_id, "ValidationError",
                   "status")
    ELSE /\ orders' = [orders EXCEPT
                          ![order_id].status = Lower(status),
                          ![order_id].delivery_time =
                              IF Lower(status) = "delivered"
                              THEN Stored(UtcNow(now)) ELSE @]
         /\ Done("update", worker_id, order_id, "ok")
         /\ UNCHANGED assigned

\* worker_service.update_order_status
update_order_status(worker_id, order_id, status) ==
    IF ~(Exists(order_id) /\ orders[order_id].worker_id = worker_id)
    THEN Fail("update", worker_id, order_id, "NotFoundError")
    ELSE IF Lower(status) \notin OrderStatus
    THEN FailField("update", worker_id, order_id, "ValidationError",
                   "status")
    ELSE /\ orders' = [orders EXCEPT ![order_id].status = Lower(status)]
         /\ Done("update", worker_id, order_id, "ok")
         /\ UNCHANGED assigned

\* create_order_for_customer looking the customer up by id alone
WorkerCustomerQueryById(worker_id, customer_id) ==
    customer_id \in Customers

\* the customer query of lines 113-116
WorkerCustomerQuery(worker_id, customer_id) ==
    customer_id \in Customers /\ assigned[customer_id] = worker_id

\* line 125: customer.addresses[0].id if customer.addresses else None
FirstAddress(customer_id) ==
    IF addresses[customer_id] # <<>> THEN Head(addresses[customer_id])
    ELSE Null

\* worker_service.create_order_for_customer; Order.address_id is declared
\* nullable=False, so the commit of an order without address raises
\* IntegrityError
worker_create_order(worker_id, customer_id, pickup, delivery, price) ==
    IF ~Comparable(delivery, pickup)
    THEN Fail("wcreate", worker_id, Null, "TypeError")
    ELSE IF DtLe(delivery, pickup)
    THEN Fail("wcreate", worker_id, Null, "ValidationError")
    ELSE IF ~WorkerCustomerQuery(worker_id, customer_id)
    THEN Fail("wcreate", worker_id, Null, "ValidationError")
    ELSE IF FirstAddress(customer_id) = Null
    THEN Fail("wcreate", worker_id, Null, "IntegrityError")
    ELSE /\ orders' = Append(orders,
                NewOrder(customer_id, worker_id, pickup, delivery, price,
                         FirstAddress(customer_id), worker_id))
         /\ Done("wcreate", worker_id, Len(orders) + 1, "ok")
         /\ UNCHANGED assigned

\* --------------------------------------------------------- admin service
\* admin_service.create_order_for_customer
admin_create_order(customer_id, worker_id, pickup, delivery, price, address_id, created_by) ==
    IF ~Comparable(delivery, pickup)
    THEN Fail("acreate", created_by, Null, "TypeError")
    ELSE IF DtLe(delivery, pickup)
    THEN Fail("acreate", created_by, Null, "ValidationError")
    ELSE /\ orders' = Append(orders,
                NewOrder(customer_id, worker_id, pickup, delivery, price,
                         address_id, created_by))
         /\ Done("acreate", created_by, Len(orders) + 1, "ok")
         /\ UNCHANGED assigned

\* assign_customer_to_worker keeping an assignment that is already there
assign_customer_to_worker_once(worker_id, customer_id, u) ==
    IF customer_id \notin Customers
    THEN Fail("assign", u, Null, "NotFoundError")
    ELSE /\ assigned' = IF assigned[customer_id] = Null
                        THEN [assigned EXCEPT ![customer_id] = worker_id]
                        ELSE assigned
         /\ Done("assign", u, Null, "ok")
         /\ UNCHANGED orders

\* admin_service.assign_customer_to_worker
assign_customer_to_worker(worker_id, customer_id, u) ==
    IF customer_id \notin Customers
    THEN Fail("assign", u, Null, "NotFoundError")
    ELSE /\ assigned' = [assigned EXCEPT ![customer_id] = worker_id]
         /\ Done("assign", u, Null, "ok")
         /\ UNCHANGED orders

\* ------------------------------------------------------------ cancel_order
\* the pickup instant cancel_order compares with: a naive stored value is
\* read as Asia/Karachi wall-clock time and converted to UTC
CancelPickup(order) ==
    LET pickup_time == Loaded(order.pickup_time)
    IN  IF ~pickup_time.aware
        THEN AsUtc(ReplaceTz(pickup_time, KarachiOffset))
        ELSE pickup_time

\* the fee with the grace window's end excluded
CancellationFeeStrict(order) ==
    IF Key(CancelPickup(order)) - now < GraceHours
    THEN (fee_percentage * order.price) \div 100
    ELSE 0

\* fee of lines 47-50
CancellationFee(order) ==
    IF Key(CancelPickup(order)) - now <= GraceHours
    THEN (fee_percentage * order.price) \div 100
    ELSE 0

\* the order query of lines 23-29
CancelQuery(user_id, order_id, role) ==
    /\ Exists(order_id)
    /\ role = UserRole("customer") => orders[order_id].customer_id = user_id

\* cancel_order also taking the order away from its worker
cancel_order_unassigning(user_id, order_id, role, op) ==
    IF user_id \notin Users
    THEN Fail(op, user_id, order_id, "NotFoundError")
    ELSE IF ~CancelQuery(user_id, order_id, role)
    THEN Fail(op, user_id, order_id, "NotFoundError")
    ELSE IF DtGt(UtcNow(now), CancelPickup(orders[order_id]))
    THEN FailField(op, user_id, order_id, "ValidationError", "pickup_time")
    ELSE /\ orders' = [orders EXCEPT
                ![order_id].status = "cancelled",
                ![order_id].worker_id = Null,
                ![order_id].cancellation_fee =
                    CancellationFee(orders[order_id])]
         /\ Done(op, user_id, order_id, "ok")
         /\ UNCHANGED assigned

cancel_order(user_id, order_id, role, op) ==
    IF user_id \notin Users
    THEN Fail(op, user_id, order_id, "NotFoundError")
    ELSE IF ~CancelQuery(user_id, order_id, role)
    THEN Fail(op, user_id, order_id, "NotFoundError")
    ELSE IF DtGt(UtcNow(now), CancelPickup(orders[order_id]))
    THEN FailField(op, user_id, order_id, "ValidationError", "pickup_time")
    ELSE /\ orders' = [orders EXCEPT
                ![order_id].status = "cancelled",
                ![order_id].cancellation_fee =
                    CancellationFee(orders[order_id])]
         /\ Done(op, user_id, order_id, "ok")
         /\ UNCHANGED assigned

\* ------------------------------------------------------------------ routes
Gated(roles, u, op, o, body) ==
    LET g == role_required(roles, TokenRole(u))
    IN  IF g # "pass" THEN Fail(op, Null, Null, g) ELSE body

\* customer_routes.create_order
CustomerCreateOrder ==
    \E u \in Users :
        /\ Len(orders) < MaxOrders
        /\ Gated({"customer"}, u, "create", Null,
                 \E w \in PickupWalls, z \in Zones, dz \in Zones,
                    dd \in {0, 1}, price \in Prices, a \in AddressInputs :
                     customer_create_order(u, MkDt(w, z), MkDt(w + dd, dz),
                                           price, a))
        /\ UNCHANGED <<now, call, addresses, history, txn, accounts>>

\* customer_routes.cancel_order_route
CustomerCancelOrder ==
    \E u \in Users, o \in OrderIds :
        /\ Gated({"customer"}, u, "ccancel", o,
                 cancel_order(u, o, TokenRole(u), "ccancel"))
        /\ UNCHANGED <<now, call, addresses, history, txn, accounts>>

\* admin_routes.cancel_order_route
AdminCancelOrder ==
    \E u \in Users, o \in OrderIds :
        /\ Gated({"admin"}, u, "acancel", o,
                 cancel_order(u, o, TokenRole(u), "acancel"))
        /\ UNCHANGED <<now, call, addresses, history, txn, accounts>>

\* worker_routes.claim_order_route
ClaimOrder ==
    \E u \in Users, o \in OrderIds :
        /\ Gated({"worker"}, u, "claim", o, claim_order(u, o))
        /\ UNCHANGED <<now, call, addresses, history, txn, accounts>>

\* worker_routes.update_order_status_route
UpdateOrderStatus ==
    \E u \in Users, o \in OrderIds :
        /\ Gated({"worker"}, u, "update", o,
                 \E status \in StatusInputs :
                     update_order_status(u, o, status))
        /\ UNCHANGED <<now, call, addresses, history, txn, accounts>>

\* worker_routes.create_order_for_customer_route
CreateOrderByWorker ==
    \E u \in Users :
        /\ Len(orders) < MaxOrders
        /\ Gated({"worker"}, u, "wcreate", Null,
                 \E c \in Customers \cup {9}, w \in PickupWalls,
                    z \in Zones, dz \in Zones, dd \in {0, 1},
                    price \in Prices :
                     worker_create_order(u, c, MkDt(w, z), MkDt(w + dd, dz),
                                         price))
        /\ UNCHANGED <<now, call, addresses, history, txn, accounts>>

\* admin_routes.create_order
CreateOrderByAdmin ==
    \E u \in Users :
        /\ Len(orders) < MaxOrders
        /\ Gated({"admin"}, u, "acreate", Null,
                 \E c \in Customers, wk \in Workers, w \in PickupWalls,
                    z \in Zones, dz \in Zones, dd \in {0, 1},
                    price \in Prices, a \in AddressInputs :
                     admin_create_order(c, wk, MkDt(w, z), MkDt(w + dd, dz),
                                        price, a, u))
        /\ UNCHANGED <<now, call, addresses, history, txn, accounts>>

\* admin_routes.assign_customer
AssignCustomerToWorker ==
    \E u \in Users :
        /\ Gated({"admin"}, u, "assign", Null,
                 \E wk \in Workers, c \in Customers \cup {9} :
                     assign_customer_to_worker(wk, c, u))
        /\ UNCHANGED <<now, call, addresses, history, txn, accounts>>

\* customer_routes.add_address
AddAddress ==
    \E u \in Users :
        /\ AddressCount < MaxAddresses
        /\ IF role_required({"customer"}, TokenRole(u)) # "pass"
           THEN /\ Fail("address", Null, Null,
                        role_required({"customer"}, TokenRole(u)))
                /\ UNCHANGED addresses
           ELSE create_customer_address(u)
        /\ UNCHANGED <<now, call, history, txn, accounts>>

\* the clock
Tick ==
    /\ now < MaxNow
    /\ now' = now + 1
    /\ Done("tick", Null, Null, "ok")
    /\ UNCHANGED <<orders, assigned, call, addresses, history, txn, accounts>>

Next ==
    \/ CustomerCreateOrder
    \/ CreateOrderByWorker
    \/ CreateOrderByAdmin
    \/ ClaimOrder
    \/ UpdateOrderStatus
    \/ CustomerCancelOrder
    \/ AdminCancelOrder
    \/ AssignCustomerToWorker
    \/ Tick

Spec == Init /\ [][Next]_vars

\* ------------------------------------------------- creation and addresses
\* the creation routes together with the address and assignment routes
CreateNext ==
    \/ CustomerCreateOrder
    \/ CreateOrderByWorker
    \/ CreateOrderByAdmin
    \/ AssignCustomerToWorker
    \/ AddAddress
    \/ Tick

CreateSpec == Init /\ [][CreateNext]_vars

\* the worker creation route with the routes that set what it reads
WorkerCreateNext ==
    \/ CreateOrderByWorker
    \/ AssignCustomerToWorker
    \/ AddAddress

WorkerCreateSpec == Init /\ [][WorkerCreateNext]_vars

\* --------------------------------------------- two orders side by side
\* a database holding an order customer 1 placed and an order the admin
\* placed for customer 2 with worker 4
FrameInit ==
    /\ orders = <<NewOrder(1, Null, Aware(7, 0), Aware(8, 0), 100, 1, 1),
                  NewOrder(2, 4, Aware(7, 0), Aware(8, 0), 100, 1, 5)>>
    /\ assigned = [c \in Customers |-> Null]
    /\ now = 0
    /\ last = [op |-> "init", user |-> Null, order |-> Null, res |-> "ok",
               field |-> "none", rows |-> {}]
    /\ call = [w \in Workers |-> Idle]
    /\ addresses = [c \in Customers |-> IF c = 1 THEN <<1>> ELSE <<>>]
    /\ history = <<>>
    /\ txn = [s \in Sessions |-> NoTxn]
    /\ accounts = Population

\* the requests that act on an order after its creation
FrameNext ==
    \/ ClaimOrder
    \/ UpdateOrderStatus
    \/ CustomerCancelOrder
    \/ AdminCancelOrder
    \/ AssignCustomerToWorker
    \/ Tick

FrameSpec == FrameInit /\ [][FrameNext]_vars

\* --------------------------------------------------------------- listings
\* worker_routes.get_unclaimed_orders
GetUnclaimedOrders ==
    \E u \in Users :
        /\ Gated({"worker"}, u, "unclaimed", Null,
                 /\ DoneRows("unclaimed", u, list_unclaimed_orders)
                 /\ UNCHANGED <<orders, assigned>>)
        /\ UNCHANGED <<now, call, addresses, history, txn, accounts>>

\* customer_routes.list_orders
ListOrders ==
    \E u \in Users :
        /\ Gated({"customer"}, u, "list", Null,
                 /\ DoneRows("list", u, list_customer_orders(u))
                 /\ UNCHANGED <<orders, assigned>>)
        /\ UNCHANGED <<now, call, addresses, history, txn, accounts>>

\* the unclaimed listing beside the requests that change what it shows
UnclaimedNext ==
    \/ GetUnclaimedOrders
    \/ ClaimOrder
    \/ UpdateOrderStatus
    \/ CustomerCancelOrder
    \/ Tick

UnclaimedSpec == FrameInit /\ [][UnclaimedNext]_vars

\* the customer listing beside the three ways an order is created
ListNext ==
    \/ ListOrders
    \/ CustomerCreateOrder
    \/ CreateOrderByWorker
    \/ CreateOrderByAdmin
    \/ AssignCustomerToWorker

ListSpec == Init /\ [][ListNext]_vars

\* ------------------------------------------------ role_required(*roles)
\* role names an endpoint can be configured with
ConfigNames == RoleNames \cup {"Admin", "WORKER", "manager"}
RoleConfigs == {R \in SUBSET ConfigNames : Cardinality(R) \in {1, 2}}

\* an endpoint wrapped by role_required(*roles) whose function assigns a
\* customer to a worker
ConfiguredEndpoint ==
    \E roles \in RoleConfigs, u \in Users :
        /\ Gated(roles, u, "endpoint", Null,
                 \E wk \in Workers, c \in Customers :
                     assign_customer_to_worker(wk, c, u))
        /\ UNCHANGED <<now, call, addresses, history, txn, accounts>>

GateNext ==
    \/ ConfiguredEndpoint
    \/ Tick

GateSpec == Init /\ [][GateNext]_vars

\* ------------------------------------- timestamps across store and load
\* zones of a request timestamp that is expressed in UTC
UtcZones == {Naive(0), Aware(0, 0)}

\* customer_routes.create_order with a pickup_time two hours and a
\* delivery_time four hours after the current instant, expressed in UTC
CustomerCreateOrderAhead ==
    \E u \in Users :
        /\ Len(orders) < MaxOrders
        /\ Gated({"customer"}, u, "create", Null,
                 \E z \in UtcZones, price \in Prices, a \in AddressInputs :
                     customer_create_order(u, MkDt(now + 2, z),
                                           MkDt(now + 4, z), price, a))
        /\ UNCHANGED <<now, call, addresses, history, txn, accounts>>

RoundTripNext ==
    \/ CustomerCreateOrderAhead
    \/ CustomerCancelOrder
    \/ Tick

RoundTripSpec == Init /\ [][RoundTripNext]_vars

\* --------------------------- concurrent update_order_status / cancel_order
\* Two requests on order 1 run in separate sessions.  Each loads the row
\* and decides (first step), then flushes the columns it changed and
\* commits (second step).
RaceStatuses == {"picked_up", "claimed", "cancelled", "bogus"}

RaceRequests ==
    {[op |-> "update", user |-> u, status |-> st] :
        u \in Workers, st \in RaceStatuses}
    \cup {[op |-> "cancel", user |-> u, status |-> "none"] :
              u \in Customers \cup Admins}

\* the order customer 1 placed and worker 3 claimed
RaceOrder ==
    [NewOrder(1, Null, Aware(7, 0), Aware(8, 0), 100, 1, 1)
        EXCEPT !.worker_id = 3, !.status = "claimed"]

RaceInit ==
    /\ orders = <<RaceOrder>>
    /\ assigned = [c \in Customers |-> Null]
    /\ now = 0
    /\ last = [op |-> "init", user |-> Null, order |-> Null, res |-> "ok",
               field |-> "none", rows |-> {}]
    /\ call = [w \in Workers |-> Idle]
    /\ addresses = [c \in Customers |-> IF c = 1 THEN <<1>> ELSE <<>>]
    /\ history = <<>>
    /\ txn = [s \in Sessions |-> NoTxn]
    /\ accounts = Population

\* the result of a call and the values its row object holds afterwards
Plan(res, status, fee) ==
    [res |-> res, status |-> status, cancellation_fee |-> fee]

\* update_order_status on a loaded row: lines 68-80
UpdatePlan(row, worker_id, status) ==
    IF row.worker_id # worker_id
    THEN Plan("NotFoundError", row.status, row.cancellation_fee)
    ELSE IF Lower(status) \notin OrderStatus
    THEN Plan("ValidationError", row.status, row.cancellation_fee)
    ELSE Plan("ok", Lower(status), row.cancellation_fee)

\* cancel_order on a loaded row: lines 23-54
CancelPlan(row, user_id, role) ==
    IF role = UserRole("customer") /\ row.customer_id # user_id
    THEN Plan("NotFoundError", row.status, row.cancellation_fee)
    ELSE IF DtGt(UtcNow(now), CancelPickup(row))
    THEN Plan("ValidationError", row.status, row.cancellation_fee)
    ELSE Plan("ok", "cancelled", CancellationFee(row))

PlanOf(req, row) ==
    IF req.op = "update" THEN UpdatePlan(row, req.user, req.status)
    ELSE CancelPlan(row, req.user, TokenRole(req.user))

\* a commit that writes status and cancellation_fee whether changed or not
FlushAllColumns(row, t) ==
    [row EXCEPT !.status = t.plan.status,
                !.cancellation_fee = t.plan.cancellation_fee]

\* db.session.commit(): the UPDATE sets the columns whose value differs
\* from the one the session loaded
Flush(row, t) ==
    [row EXCEPT
        !.status = IF t.plan.status # t.loaded.status
                   THEN t.plan.status ELSE @,
        !.cancellation_fee =
            IF t.plan.cancellation_fee # t.loaded.cancellation_fee
            THEN t.plan.cancellation_fee ELSE @]

\* the query and the checks of one call; a call that raises is over
TxnRead(s) ==
    /\ txn[s].pc = "idle"
    /\ \E req \in RaceRequests :
          LET row == orders[1]
              plan == PlanOf(req, row)
          IN  txn' = [txn EXCEPT ![s] =
                        [pc |-> IF plan.res = "ok" THEN "read" ELSE "done",
                         req |-> req,
                         loaded |-> [status |-> row.status,
                                     cancellation_fee
                                         |-> row.cancellation_fee],
                         plan |-> plan]]
    /\ Done("read", s, 1, "pending")
    /\ UNCHANGED <<orders, assigned, now, call, addresses, history, accounts>>

\* the commit of one call
TxnWrite(s) ==
    /\ txn[s].pc = "read"
    /\ orders' = [orders EXCEPT ![1] = Flush(@, txn[s])]
    /\ txn' = [txn EXCEPT ![s].pc = "done"]
    /\ Done("commit", s, 1, "ok")
    /\ UNCHANGED <<assigned, now, call, addresses, history, accounts>>

\* the two requests arrive within the same hour
RaceTick ==
    /\ \A s \in Sessions : txn[s].pc = "idle"
    /\ Tick

RaceNext ==
    \/ RaceTick
    \/ \E s \in Sessions : TxnRead(s)
    \/ \E s \in Sessions : TxnWrite(s)

RaceSpec == RaceInit /\ [][RaceNext]_vars

\* ------------------------------------- claim requests for any order id
\* ids a worker can put in the claim URL: the two orders and a missing one
ProbeIds == {1, 2, 3}

\* worker_routes.claim_order_route
ClaimAnyOrder ==
    \E u \in Users, o \in ProbeIds :
        /\ Gated({"worker"}, u, "claim", o, claim_order(u, o))
        /\ UNCHANGED <<now, call, addresses, history, txn, accounts>>

ProbeNext ==
    \/ ClaimAnyOrder
    \/ UpdateOrderStatus
    \/ CustomerCancelOrder
    \/ AssignCustomerToWorker
    \/ Tick

ProbeSpec == FrameInit /\ [][ProbeNext]_vars

\* ------------------------------------- responses of the cancel routes
\* what cancel_order returns: jsonify({"message", "cancellation_fee"}), 200
cancel_order_result ==
    [status |-> 200, keys |-> {"message", "cancellation_fee"}]

\* a route that lets the exception through: Flask answers 500
cancel_order_route_uncaught(res) ==
    IF res = "ok" THEN cancel_order_result
    ELSE [status |-> 500, keys |-> {}]

\* customer_routes.cancel_order_route: try / except Exception
cancel_order_route(res) ==
    IF res = "ok" THEN cancel_order_result
    ELSE [status |-> 400, keys |-> {"error"}]

\* a cancel request during which the database refuses the query, so that
\* cancel_order raises an exception that is none of the application's own
CustomerCancelOrderDbError ==
    \E u \in Users, o \in OrderIds :
        /\ Gated({"customer"}, u, "ccancel", o,
                 Fail("ccancel", u, o, "OperationalError"))
        /\ UNCHANGED <<now, call, addresses, history, txn, accounts>>

\* customer_routes.cancel_order_route for any order id of the URL
CustomerCancelAnyOrder ==
    \E u \in Users, o \in ProbeIds :
        /\ Gated({"customer"}, u, "ccancel", o,
                 cancel_order(u, o, TokenRole(u), "ccancel"))
        /\ UNCHANGED <<now, call, addresses, history, txn, accounts>>

CancelRouteNext ==
    \/ ClaimOrder
    \/ Tick
    \/ CustomerCancelAnyOrder
    \/ CustomerCancelOrderDbError

CancelRouteSpec == FrameInit /\ [][CancelRouteNext]_vars

\* ------------------------------------------ cancel requests of workers
\* customer_routes.cancel_order_route called with a worker's token
WorkerCallsCustomerCancel ==
    \E u \in Workers, o \in OrderIds :
        /\ Gated({"customer"}, u, "ccancel", o,
                 cancel_order(u, o, TokenRole(u), "ccancel"))
        /\ UNCHANGED <<now, call, addresses, history, txn, accounts>>

\* admin_routes.cancel_order_route called with a worker's token
WorkerCallsAdminCancel ==
    \E u \in Workers, o \in OrderIds :
        /\ Gated({"admin"}, u, "acancel", o,
                 cancel_order(u, o, TokenRole(u), "acancel"))
        /\ UNCHANGED <<now, call, addresses, history, txn, accounts>>

\* orders are created and claimed, and every cancel request is a worker's
WorkerCancelNext ==
    \/ CustomerCreateOrder
    \/ ClaimOrder
    \/ WorkerCallsCustomerCancel
    \/ WorkerCallsAdminCancel
    \/ Tick

WorkerCancelSpec == Init /\ [][WorkerCancelNext]_vars

\* ------------------------------------------- concurrent claim_order calls
\* Two requests run claim_order in separate sessions: the query of line 44
\* and the commit of line 51 are separate steps of each call.
ClaimRead ==
    \E u \in Users, o \in OrderIds :
        /\ Gated({"worker"}, u, "claim", o,
                 /\ call[u].pc # "write"
                 /\ IF ~ClaimQuery(o)
                    THEN /\ call' = [call EXCEPT ![u] =
                                [pc |-> "done", order |-> o,
                                 res |-> "NotFoundError"]]
                         /\ Done("claim", u, o, "NotFoundError")
                    ELSE /\ call' = [call EXCEPT ![u] =
                                [pc |-> "write", order |-> o,
                                 res |-> "none"]]
                         /\ Done("claim_read", u, o, "pending")
                 /\ UNCHANGED <<orders, assigned>>)
        /\ (role_required({"worker"}, TokenRole(u)) # "pass"
                => UNCHANGED call)
        /\ UNCHANGED <<now, addresses, history, txn, accounts>>

ClaimWrite ==
    \E w \in Workers :
        /\ call[w].pc = "write"
        /\ orders' = ClaimWriteRow(w, call[w].order)
        /\ call' = [call EXCEPT ![w] =
                [pc |-> "done", order |-> call[w].order, res |-> "ok"]]
        /\ Done("claim", w, call[w].order, "ok")
        /\ UNCHANGED <<assigned, now, addresses, history, txn, accounts>>

ConcNext ==
    \/ CustomerCreateOrder
    \/ ClaimRead
    \/ ClaimWrite
    \/ UpdateOrderStatus
    \/ CustomerCancelOrder

ConcSpec == Init /\ [][ConcNext]_vars

\* ------------------------------------------------- signup and create-admin
\* what a call gives: the value it returns or the exception it raises
Return(v) == [raised |-> "none", field |-> "none", value |-> v]
Raise(kind, field) == [raised |-> kind, field |-> field, value |-> Null]

EmailTaken(email) ==
    \E i \in DOMAIN accounts.user : accounts.user[i].email = email
\* User.query.filter_by(email=email).first()
UserByEmail(email) ==
    CHOOSE i \in DOMAIN accounts.user : accounts.user[i].email = email

PhoneTaken(phone) ==
    \E i \in DOMAIN accounts.user : accounts.user[i].phone = phone

\* validators_util: each function raises or falls off its end, which
\* returns None
validate_email(email) ==
    IF email \notin EMAIL_PATTERN THEN Raise("ValidationError", "email")
    ELSE IF EmailTaken(email) THEN Raise("ValidationError", "email")
    ELSE Return(Null)

validate_phone(phone) ==
    IF phone \notin PHONE_PATTERN THEN Raise("ValidationError", "phone")
    ELSE IF PhoneTaken(phone) THEN Raise("ValidationError", "phone")
    ELSE Return(Null)

validate_password(password) ==
    IF password \notin PASSWORD_PATTERN
    THEN Raise("ValidationError", "password")
    ELSE Return(Null)

\* auth_service.hash_password: generate_password_hash encodes its
\* argument, which None does not allow
hash_password(password) ==
    IF password = Null THEN Raise("AttributeError", "none")
    ELSE Return(generate_password_hash(password))

\* the except clauses of create_user answering 404 for every exception
ErrorStatusNotFound(kind) ==
    "404"

\* the except clauses of create_user, lines 117-133
ErrorStatus(kind) ==
    IF kind = "ValidationError" THEN "400"
    ELSE IF kind \in {"AuthenticationError", "AuthorizationError"}
    THEN "403"
    ELSE IF kind = "NotFoundError" THEN "404"
    ELSE "500"

\* the body of the try block, lines 78-109, given what validate_email did:
\* the first exception, or the rows the commit writes
SignupAttempt(payload, email) ==
    LET phone == validate_phone(payload.phone)
        password == validate_password(payload.password)
        hashed == hash_password(password.value)
        id == Len(accounts.user) + 1
    IN  IF email.raised # "none" THEN email
        ELSE IF phone.raised # "none" THEN phone
        ELSE IF password.raised # "none" THEN password
        ELSE IF Lower(payload.role) \notin RoleNames
        THEN Raise("ValidationError", "role")
        ELSE IF hashed.raised # "none" THEN hashed
        ELSE IF email.value = Null \/ phone.value = Null
        THEN Raise("IntegrityError", "none")
        ELSE Return(
            [user |-> Append(accounts.user,
                             [email |-> email.value,
                              phone |-> phone.value,
                              password |-> hashed.value,
                              role |-> UserRole(Lower(payload.role))]),
             customer |-> IF Lower(payload.role) = "customer"
                          THEN accounts.customer \cup {id}
                          ELSE accounts.customer,
             worker |-> IF Lower(payload.role) = "customer"
                        THEN accounts.worker
                        ELSE accounts.worker \cup {id}])

\* auth_service.create_user with the outcome of validate_email given
create_user_from(payload, email, op) ==
    LET attempt == SignupAttempt(payload, email)
    IN  /\ IF attempt.raised # "none"
           THEN /\ accounts' = accounts
                /\ DoneField(op, Null, Null, ErrorStatus(attempt.raised),
                             IF attempt.raised = "ValidationError"
                             THEN attempt.field ELSE "none")
           ELSE /\ accounts' = attempt.value
                /\ Done(op, Len(accounts.user) + 1, Null, "201")
        /\ UNCHANGED <<orders, assigned, now, call, addresses, history,
                       txn>>

\* auth_service.create_user
create_user(payload) ==
    create_user_from(payload, validate_email(payload.email), "signup")

Payloads ==
    [email : Emails, phone : Phones, password : Passwords,
     role : SignupRoles]

\* auth_routes.signup
Signup ==
    \/ /\ Done("signup", Null, Null, "400")
       /\ UNCHANGED <<orders, assigned, now, call, addresses, history,
                      txn, accounts>>
    \/ \E payload \in Payloads : create_user(payload)

\* create_user while validate_email is replaced by a function that
\* raises the given exception
RaisedKinds ==
    {"ValidationError", "AuthenticationError", "AuthorizationError",
     "NotFoundError", "Exception"}

\* the payload of the tests
valid_payload ==
    [email |-> "ann@x.io", phone |-> "03001234567",
     password |-> "Passw0rd!", role |-> "customer"]

SignupPatched ==
    \E kind \in RaisedKinds :
        create_user_from(valid_payload, Raise(kind, "email"),
                         "signup_patched")

\* create_admin keeping the role argument
create_admin_role_argument(email, password, phone, role) ==
    /\ IF EmailTaken(email)
       THEN /\ accounts' = accounts
            /\ Done("create-admin", UserByEmail(email), Null, "exists")
       ELSE IF PhoneTaken(phone)
       THEN /\ accounts' = accounts
            /\ Done("create-admin", Null, Null, "IntegrityError")
       ELSE /\ accounts' =
                   [accounts EXCEPT !.user =
                       Append(@, [email |-> email,
                                  phone |-> phone,
                                  password |->
                                      generate_password_hash(password),
                                  role |-> EnumColumn(Str(Lower(role)))])]
            /\ Done("create-admin", Len(accounts.user) + 1, Null,
                    "created")
    /\ UNCHANGED <<orders, assigned, now, call, addresses, history, txn>>

\* admin_command.create_admin: the commit fails on the unique phone
\* column when another user has the phone
create_admin(email, password, phone, role) ==
    /\ IF EmailTaken(email)
       THEN /\ accounts' = accounts
            /\ Done("create-admin", UserByEmail(email), Null, "exists")
       ELSE IF PhoneTaken(phone)
       THEN /\ accounts' = accounts
            /\ Done("create-admin", Null, Null, "IntegrityError")
       ELSE /\ accounts' =
                   [accounts EXCEPT !.user =
                       Append(@, [email |-> email,
                                  phone |-> phone,
                                  password |->
                                      generate_password_hash(password),
                                  role |-> EnumColumn(Str("admin"))])]
            /\ Done("create-admin", Len(accounts.user) + 1, Null,
                    "created")
    /\ UNCHANGED <<orders, assigned, now, call, addresses, history, txn>>

\* the create-admin command line
AdminPasswords == {"password123"}

CreateAdmin ==
    \E email \in Emails, password \in AdminPasswords, phone \in Phones,
       role \in SignupRoles :
        create_admin(email, password, phone, role)

AuthNext ==
    \/ Signup
    \/ CreateAdmin

AuthSpec == Init /\ [][AuthNext]_vars

\* the command run again and again
AdminSpec == Init /\ [][CreateAdmin]_vars

PatchedNext ==
    \/ AuthNext
    \/ SignupPatched

PatchedSpec == Init /\ [][PatchedNext]_vars

\* ================================================================ claims
Terminal == {"cancelled", "completed"}
CancelOps == {"ccancel", "acancel"}

\* pickup instant of a stored order, its naive timestamp read in the
\* configured local zone (UTC+5)
PickupInstant(o) == orders[o].pickup_time - KarachiOffset

\* C1: two concurrent claim_order calls on the same unclaimed order never
\* both return success (one succeeds, the other raises NotFoundError).
C1_ExclusiveClaim ==
    \A w1 \in Workers, w2 \in Workers :
        (w1 # w2 /\ call[w1].res = "ok" /\ call[w2].res = "ok")
            => call[w1].order # call[w2].order

\* C2: once an order is cancelled or completed its status never changes.
C2_TerminalIsFinal ==
    [][\A o \in DOMAIN orders :
          orders[o].status \in Terminal
              => orders'[o].status = orders[o].status]_vars

\* C3: through the customer cancel route a customer cancelling an order of
\* another customer gets NotFoundError and the order table is unchanged,
\* while an admin is never refused an existing order as not found.
C3_CustomerCancelsOwnOnly ==
    [][/\ (/\ last'.op = "ccancel"
           /\ last'.user \in Customers
           /\ Exists(last'.order)
           /\ orders[last'.order].customer_id # last'.user)
             => (last'.res = "NotFoundError" /\ orders' = orders)
       /\ (/\ last'.op = "acancel"
           /\ last'.user \in Admins
           /\ Exists(last'.order))
             => last'.res # "NotFoundError"]_vars

\* C4: cancel_order called after the order's pickup instant fails with
\* ValidationError and changes nothing, and no order becomes cancelled
\* after its pickup instant.
C4_NoCancelAfterPickup ==
    [][/\ (/\ last'.op \in CancelOps
           /\ last'.user \in Users
           /\ Exists(last'.order)
           /\ now > PickupInstant(last'.order))
             => (last'.res = "ValidationError" /\ orders' = orders)
       /\ \A o \in DOMAIN orders :
             (orders[o].status # "cancelled"
              /\ orders'[o].status = "cancelled")
                 => now <= PickupInstant(o)]_vars

\* C5: after a successful cancel_order the stored fee is
\* fee_percentage/100 * price when at most one hour remains until pickup
\* (one hour and zero included) and 0 when more remains.
C5_FeeByGraceWindow ==
    (last.op \in CancelOps /\ last.res = "ok") =>
        LET o == last.order
            remaining == PickupInstant(o) - now
        IN  /\ orders[o].status = "cancelled"
            /\ remaining <= GraceHours
                 => 100 * orders[o].cancellation_fee
                        = fee_percentage * orders[o].price
            /\ remaining > GraceHours => orders[o].cancellation_fee = 0

C5_Witness ==
    /\ last.op \in CancelOps
    /\ last.res = "ok"
    /\ PickupInstant(last.order) - now = GraceHours
    /\ orders[last.order].cancellation_fee > 0

\* C6: every order has 0 <= cancellation_fee <= price.
C6_FeeWithinPrice ==
    \A o \in DOMAIN orders :
        /\ 0 <= orders[o].cancellation_fee
        /\ orders[o].cancellation_fee <= orders[o].price

\* C7: claim_order succeeds only on an order with no worker and status
\* created; on any other order it raises NotFoundError and changes nothing.
C7_ClaimOnlyCreated ==
    [][(last'.op = "claim" /\ last'.user \in Workers /\ Exists(last'.order))
          => IF /\ orders[last'.order].worker_id = Null
                /\ orders[last'.order].status = "created"
             THEN last'.res = "ok"
             ELSE last'.res = "NotFoundError" /\ orders' = orders]_vars

\* C8: claim_order on an order whose worker_id is already set raises
\* NotFoundError and leaves the order unchanged.
C8_ClaimedOrderNotClaimable ==
    [][(/\ last'.op = "claim"
        /\ last'.user \in Workers
        /\ Exists(last'.order)
        /\ orders[last'.order].worker_id # Null)
          => (last'.res = "NotFoundError" /\ orders' = orders)]_vars

C8_Witness ==
    /\ last.op = "claim"
    /\ last.res = "NotFoundError"
    /\ Exists(last.order)
    /\ orders[last.order].worker_id \notin {Null, last.user}

\* C9: in a sequential run a non-null worker_id is never changed or reset.
C9_WorkerIdStable ==
    [][\A o \in DOMAIN orders :
          orders[o].worker_id # Null
              => /\ o \in DOMAIN orders'
                 /\ orders'[o].worker_id = orders[o].worker_id]_vars

C9_Witness ==
    /\ last.op \in CancelOps \cup {"update"}
    /\ last.res = "ok"
    /\ orders[last.order].worker_id # Null
    /\ \E c \in Customers : assigned[c] # Null

\* C10: update_order_status by the assigned worker on a completed or
\* cancelled order fails with ValidationError and keeps the status.
C10_NoUpdateFromTerminal ==
    [][(/\ last'.op = "update"
        /\ Exists(last'.order)
        /\ orders[last'.order].worker_id = last'.user
        /\ orders[last'.order].status \in Terminal)
          => (/\ last'.res = "ValidationError"
              /\ orders'[last'.order].status
                    = orders[last'.order].status)]_vars

\* the life cycle order of the statuses a worker moves an order through
Lifecycle ==
    <<"created", "claimed", "picked_up", "in_progress", "delivered",
      "completed">>

ForwardStep(a, b) ==
    \E i \in 1..(Len(Lifecycle) - 1) :
        Lifecycle[i] = a /\ Lifecycle[i + 1] = b

\* C11: update_order_status by the assigned worker succeeds only when the
\* new status is the next one after the current status in created <
\* claimed < picked_up < in_progress < delivered < completed; a rejected
\* request leaves the status as it was.
C11_ForwardStepsOnly ==
    [][(/\ last'.op = "update"
        /\ Exists(last'.order)
        /\ orders[last'.order].worker_id = last'.user)
          => IF last'.res = "ok"
             THEN ForwardStep(orders[last'.order].status,
                              orders'[last'.order].status)
             ELSE orders'[last'.order].status
                      = orders[last'.order].status]_vars

\* C12: update_order_status never moves an order into cancelled; an order
\* becomes cancelled only through cancel_order called by its customer or
\* by an admin, not after its pickup instant.
C12_CancelledOnlyByCancelOrder ==
    [][\A o \in DOMAIN orders :
          (orders[o].status # "cancelled"
           /\ orders'[o].status = "cancelled")
              => /\ last'.op \in CancelOps
                 /\ last'.order = o
                 /\ last'.user \in Admins \cup {orders[o].customer_id}
                 /\ now <= PickupInstant(o)]_vars

\* C13: update_order_status raises NotFoundError and changes no order
\* whenever the order is absent, unclaimed or assigned to another worker,
\* and only the worker an order is assigned to changes its status through
\* update_order_status.
C13_UpdateOnlyOwnOrders ==
    [][/\ (/\ last'.op = "update"
           /\ last'.user \in Workers
           /\ ~(/\ Exists(last'.order)
                /\ orders[last'.order].worker_id = last'.user))
             => (last'.res = "NotFoundError" /\ orders' = orders)
       /\ \A o \in DOMAIN orders :
             (last'.op = "update" /\ orders'[o].status # orders[o].status)
                 => orders[o].worker_id = last'.user]_vars

C13_Witness ==
    /\ last.op = "update"
    /\ last.res = "NotFoundError"
    /\ Exists(last.order)
    /\ orders[last.order].worker_id \in Workers \ {last.user}

\* C14: update_order_status on an order assigned to the caller, with a
\* status string whose lower-case form names no OrderStatus member, raises
\* ValidationError with field status and leaves the status unchanged.
C14_UnknownStatusRejected ==
    [][last'.op = "update" =>
          \A u \in Workers, o \in OrderIds, s \in StatusInputs :
              (/\ Lower(s) \notin OrderStatus
               /\ Exists(o)
               /\ orders[o].worker_id = u
               /\ update_order_status(u, o, s))
                 => /\ last'.res = "ValidationError"
                    /\ last'.field = "status"
                    /\ orders'[o].status = orders[o].status]_vars

C14_Witness ==
    /\ last.op = "update"
    /\ last.res = "ValidationError"
    /\ last.field = "status"
    /\ Exists(last.order)
    /\ orders[last.order].worker_id = last.user

\* C15: every step of claim_order, update_order_status or cancel_order
\* that changes an order's status appends, in the same step, exactly one
\* OrderStatusHistory row for that order and its new status, and rows are
\* added by nothing else.
C15_HistoryRowPerChange ==
    [][/\ \A o \in DOMAIN orders :
             orders'[o].status # orders[o].status
                 => /\ Len(history') = Len(history) + 1
                    /\ history'[Len(history')]
                           = [order_id |-> o, status |-> orders'[o].status]
       /\ Len(history') # Len(history)
             => \E o \in DOMAIN orders :
                    orders'[o].status # orders[o].status]_vars

\* C16: every persisted order has delivery_time strictly greater than
\* pickup_time, from the step that creates it on, and no step changes the
\* pickup_time or delivery_time of an order.
C16_DeliveryAfterPickup ==
    [][\A o \in DOMAIN orders' :
          /\ orders'[o].delivery_time > orders'[o].pickup_time
          /\ o \in DOMAIN orders
               => /\ orders'[o].pickup_time = orders[o].pickup_time
                  /\ orders'[o].delivery_time
                         = orders[o].delivery_time]_vars

\* the timestamps a create-order request can carry
RequestTimes == {MkDt(w + dd, z) : w \in PickupWalls, dd \in {0, 1}, z \in Zones}

\* the instant a request timestamp names, one without zone read as UTC
RequestInstant(dt) == dt.wall - dt.off

\* C17: customer create_order_for_customer with a pickup_time at or before
\* the current instant raises ValidationError with field pickup_time, also
\* when the delivery_time is not after the pickup_time, and persists
\* nothing.
C17_CustomerPickupInFuture ==
    [][last'.op = "create" =>
          \A u \in Customers, p \in RequestTimes, d \in RequestTimes,
             price \in Prices, a \in AddressInputs :
              (/\ RequestInstant(p) <= now
               /\ customer_create_order(u, p, d, price, a))
                 => /\ last'.res = "ValidationError"
                    /\ last'.field = "pickup_time"
                    /\ orders' = orders]_vars

C17_Witness ==
    /\ last.op = "create"
    /\ last.res = "ValidationError"
    /\ last.field = "pickup_time"
    /\ orders = <<>>

\* C18: each of the three creation services rejects a pickup_time that is
\* not after the current instant and persists no order for it.
C18_PickupInFutureEverywhere ==
    [][last'.op \in {"create", "wcreate", "acreate"} =>
          \A u \in Users, c \in Customers, wk \in Workers,
             p \in RequestTimes, d \in RequestTimes, price \in Prices,
             a \in AddressInputs :
              (/\ RequestInstant(p) <= now
               /\ \/ customer_create_order(u, p, d, price, a)
                  \/ worker_create_order(u, c, p, d, price)
                  \/ admin_create_order(c, wk, p, d, price, a, u))
                 => (last'.res # "ok" /\ orders' = orders)]_vars

C20_WorkerOrderNeedsAddress ==
    [][/\ last'.op = "wcreate" =>
             \A w \in Workers, c \in Customers, p \in RequestTimes,
                d \in RequestTimes, price \in Prices :
                 (/\ assigned[c] = w
                  /\ addresses[c] = <<>>
                  /\ worker_create_order(w, c, p, d, price))
                    => (last'.res = "ValidationError" /\ orders' = orders)
       /\ \A o \in DOMAIN orders' : orders'[o].address_id # Null]_vars

\* C21: assign_customer_to_worker raises NotFoundError and changes nothing
\* for a customer that does not exist; for an existing customer it sets
\* assigned_worker_id to the given worker whatever it was before and
\* changes nothing else; no other request changes an assignment.
C21_AssignOverwrites ==
    [][IF last'.op = "assign" /\ last'.user \in Admins
       THEN \A wk \in Workers, c \in Customers \cup {9} :
                assign_customer_to_worker(wk, c, last'.user)
                    => /\ orders' = orders
                       /\ IF c \in Customers
                          THEN /\ last'.res = "ok"
                               /\ assigned'
                                     = [assigned EXCEPT ![c] = wk]
                          ELSE /\ last'.res = "NotFoundError"
                               /\ assigned' = assigned
       ELSE assigned' = assigned]_vars

C21_Witness ==
    /\ last.op = "assign"
    /\ last.res = "ok"
    /\ assigned[1] \in Workers
    /\ assigned[2] \in Workers
    /\ assigned[1] # assigned[2]

\* C22: a cancel request made with a worker's token, on the customer or
\* the admin cancel route, gets 403 and changes no order, so no order
\* becomes cancelled through cancel_order by a worker.
C22_WorkerCannotCancel ==
    [][/\ last'.op \in CancelOps
             => (last'.res = "403" /\ orders' = orders)
       /\ \A o \in DOMAIN orders :
             orders[o].status # "cancelled"
                 => orders'[o].status # "cancelled"]_vars

C22_Witness ==
    /\ last.op \in CancelOps
    /\ last.res = "403"
    /\ Exists(1)
    /\ orders[1].worker_id \in Workers
    /\ orders[1].status = "claimed"

\* C23: a successful cancel_order sets the order's status to cancelled and
\* its cancellation_fee to the fee computed from the time left and the
\* price, and changes no other field of that order, no other order and no
\* customer's assigned_worker_id.
C23_CancelFrame ==
    [][(last'.op \in CancelOps /\ last'.res = "ok") =>
          LET o == last'.order
              fee == orders'[o].cancellation_fee
          IN  /\ orders' = [orders EXCEPT ![o].status = "cancelled",
                                           ![o].cancellation_fee = fee]
              /\ IF PickupInstant(o) - now <= GraceHours
                 THEN 100 * fee = fee_percentage * orders[o].price
                 ELSE fee = 0
              /\ assigned' = assigned]_vars

C23_Witness ==
    /\ last.op \in CancelOps
    /\ last.res = "ok"
    /\ Len(orders) = 2
    /\ orders[last.order].worker_id \in Workers
    /\ orders[last.order].cancellation_fee > 0
    /\ \E c \in Customers : assigned[c] # Null

\* C24: list_unclaimed_orders returns exactly the orders without worker
\* and in status created, and claim_order by any worker on an order it
\* lists succeeds, after which the order is not listed any more.
C24_UnclaimedListing ==
    [][/\ (last'.op = "unclaimed" /\ last'.res = "ok")
             => /\ orders' = orders
                /\ \A o \in DOMAIN orders :
                      o \in last'.rows
                          <=> (/\ orders[o].worker_id = Null
                               /\ orders[o].status = "created")
                /\ last'.rows \subseteq DOMAIN orders
       /\ (/\ last'.op = "claim"
           /\ last'.user \in Workers
           /\ last'.order \in list_unclaimed_orders)
             => /\ last'.res = "ok"
                /\ last'.order \notin list_unclaimed_orders']_vars

C24_Witness ==
    /\ last.op = "unclaimed"
    /\ last.res = "ok"
    /\ last.rows = {}
    /\ orders[1].worker_id = Null
    /\ orders[2].worker_id # Null

\* C25: list_customer_orders called by customer c returns exactly the
\* orders whose customer_id is c, whoever created them, and changes no
\* state.
C25_CustomerListing ==
    [][(last'.op = "list" /\ last'.res = "ok") =>
          /\ orders' = orders
          /\ assigned' = assigned
          /\ last'.rows \subseteq DOMAIN orders
          /\ \A o \in DOMAIN orders :
                o \in last'.rows
                    <=> orders[o].customer_id = last'.user]_vars

C25_Witness ==
    /\ last.op = "list"
    /\ last.res = "ok"
    /\ last.rows = {}
    /\ Len(orders) = 1
    /\ orders[1].created_by \notin Customers

\* the roles each route is wrapped with
RouteRoles(op) ==
    IF op \in {"create", "ccancel", "list", "address"} THEN {"customer"}
    ELSE IF op \in {"claim", "update", "wcreate", "unclaimed"}
    THEN {"worker"}
    ELSE IF op \in {"acreate", "acancel", "assign"} THEN {"admin"}
    ELSE {}

\* C26: with recognised role names R, role_required(R) answers 403 to a
\* role claim outside R and calls the wrapped function for one inside R;
\* a request answered 403 changes no state, and a request that was let
\* through ran with the identity of a user whose role the route allows.
C26_GateByRole ==
    /\ [](\A R \in (SUBSET RoleNames) \ {{}}, u \in Users :
             role_required(R, TokenRole(u))
                 = IF RoleOf(u).v \in R THEN "pass" ELSE "403")
    /\ [][/\ last'.res = "403"
                => /\ UNCHANGED <<orders, assigned, addresses, history, txn>>
                   /\ last'.user = Null
          /\ (RouteRoles(last'.op) # {} /\ last'.res # "403")
                => /\ last'.user \in Users
                   /\ RoleOf(last'.user).v \in RouteRoles(last'.op)]_vars

C26_Witness ==
    /\ last.op = "acancel"
    /\ last.res = "403"
    /\ orders[1].status = "created"

\* C27: role_required compares configured role names in lower case, and
\* when a configured name is no role every call is answered 400, whatever
\* the caller's role, and the wrapped function does not run.
C27_GateConfiguration ==
    /\ [](/\ \A R \in RoleConfigs, u \in Users :
                role_required(R, TokenRole(u))
                    = IF \E r \in R : Lower(r) \notin RoleNames
                      THEN "400"
                      ELSE role_required({Lower(r) : r \in R},
                                         TokenRole(u))
          /\ role_required({"Admin"}, Str("admin")) = "pass")
    /\ [][last'.op = "endpoint"
             => /\ last'.res \in {"400", "403"}
                /\ assigned' = assigned]_vars

C27_Witness ==
    /\ last.op = "endpoint"
    /\ last.res = "400"
    /\ \E c \in Customers : assigned[c] # Null

\* C28: an order the customer path has just created with a pickup_time
\* two hours and a delivery_time four hours after the current instant,
\* both expressed in UTC, is cancelled by its customer in the next request
\* with success and a cancellation_fee of 0.
C28_CreateThenCancelAgree ==
    [][(/\ last.op = "create"
        /\ last.res = "ok"
        /\ orders[last.order].pickup_time = now + 2
        /\ orders[last.order].delivery_time = now + 4
        /\ last'.op = "ccancel"
        /\ last'.user = orders[last.order].customer_id
        /\ last'.order = last.order)
          => /\ last'.res = "ok"
             /\ orders'[last.order].status = "cancelled"
             /\ orders'[last.order].cancellation_fee = 0]_vars

\* one call run alone on a row: the row afterwards and the result
RunAlone(req, row) ==
    LET plan == PlanOf(req, row)
    IN  [row |-> [row EXCEPT !.status = plan.status,
                             !.cancellation_fee = plan.cancellation_fee],
         res |-> plan.res]

\* the two calls run one after the other, a first
SerialRun(a, b) ==
    LET first == RunAlone(a, RaceOrder)
        second == RunAlone(b, first.row)
    IN  [row |-> second.row, resa |-> first.res, resb |-> second.res]

CreationFields(order) ==
    <<order.customer_id, order.pickup_time, order.delivery_time,
      order.price, order.address_id, order.created_by>>

\* C30: no claim_order, update_order_status, cancel_order or
\* assign_customer_to_worker call, successful or not, changes the
\* customer_id, pickup_time, delivery_time, price, address_id or
\* created_by of any order, and none removes an order.
C30_CreationFieldsKept ==
    [][\A o \in DOMAIN orders :
          /\ o \in DOMAIN orders'
          /\ CreationFields(orders'[o]) = CreationFields(orders[o])]_vars

C30_Witness ==
    /\ last.op = "update"
    /\ last.res = "ok"
    /\ last.order = 1
    /\ orders[1].worker_id \in Workers
    /\ orders[1].cancellation_fee > 0
    /\ orders[1].status = "delivered"
    /\ \E c \in Customers : assigned[c] # Null
    /\ CreationFields(orders[1]) = <<1, 7, 8, 100, 1, 1>>
    /\ CreationFields(orders[2]) = <<2, 7, 8, 100, 1, 5>>

\* C31: a claim_order call on an order id that does not exist and one on
\* an order that already has a worker end the same way: NotFoundError from
\* the one raise site (one message), no field, orders and assignments
\* unchanged.
C31_ClaimFailuresAlike ==
    [][(/\ last'.op = "claim"
        /\ last'.user \in Workers
        /\ \/ ~Exists(last'.order)
           \/ orders[last'.order].worker_id # Null)
          => /\ last' = [op |-> "claim", user |-> last'.user,
                         order |-> last'.order, res |-> "NotFoundError",
                         field |-> "none", rows |-> {}]
             /\ orders' = orders
             /\ assigned' = assigned]_vars

C31_Witness ==
    /\ last.op = "claim"
    /\ last.res = "NotFoundError"
    /\ last.user \in Workers
    /\ last.order = 1
    /\ orders[1].worker_id \in Workers \ {last.user}
    /\ orders[1].status = "claimed"

\* C32: on the customer cancel route, whatever cancel_order raises
\* (NotFoundError, ValidationError, any other exception) becomes a 400
\* response whose body has the key "error", and what a successful
\* cancel_order returns is the route's response as it is.
C32_CustomerCancelResponses ==
    (last.op = "ccancel" /\ last.user # Null) =>
        LET response == cancel_order_route(last.res)
        IN  IF last.res = "ok"
            THEN response = cancel_order_result
            ELSE response.status = 400 /\ "error" \in response.keys

C32_Witness ==
    /\ last.op = "ccancel"
    /\ last.user \in Customers
    /\ last.res = "ValidationError"
    /\ orders[last.order].status = "claimed"
    /\ cancel_order_route(last.res).status = 400

\* the status the claim gives for each kind of exception
SignupStatus(kind) ==
    CASE kind = "ValidationError" -> "400"
      [] kind = "AuthenticationError" -> "403"
      [] kind = "AuthorizationError" -> "403"
      [] kind = "NotFoundError" -> "404"
      [] OTHER -> "500"

\* C33: when an exception is raised during create_user, the response
\* status follows its kind (ValidationError 400, AuthenticationError and
\* AuthorizationError 403, NotFoundError 404, any other 500), and no
\* signup that does not answer 201 changes the User, Customer or Worker
\* table.
C33_SignupFailureStatus ==
    [][/\ last'.op = "signup_patched"
            => \A kind \in RaisedKinds :
                   create_user_from(valid_payload, Raise(kind, "email"),
                                    "signup_patched")
                       => last'.res = SignupStatus(kind)
       /\ (last'.op \in {"signup", "signup_patched"}
              /\ last'.res # "201")
            => accounts' = accounts]_vars

C33_Witness ==
    /\ last.op = "signup_patched"
    /\ last.res = "403"
    /\ Len(accounts.user) > 5

\* a payload that passes the three validators and names a role
PassesValidation(payload) ==
    /\ validate_email(payload.email).raised = "none"
    /\ validate_phone(payload.phone).raised = "none"
    /\ validate_password(payload.password).raised = "none"
    /\ Lower(payload.role) \in RoleNames

\* C34: create_user with a payload whose email, phone and password pass
\* the validators and whose role is a recognised role answers 201 and
\* adds one User row with that email, that phone and the hash of that
\* password, together with a Customer or Worker row of the same id.
C34_SignupPersistsUser ==
    [][last'.op = "signup"
          => \A payload \in Payloads :
                 (PassesValidation(payload) /\ create_user(payload))
                     => /\ last'.res = "201"
                        /\ Len(accounts'.user) = Len(accounts.user) + 1
                        /\ LET id == Len(accounts'.user)
                               user == accounts'.user[id]
                           IN  /\ user.email = payload.email
                               /\ user.phone = payload.phone
                               /\ user.password
                                      = generate_password_hash(
                                            payload.password)
                               /\ id \in accounts'.customer
                                           \cup accounts'.worker]_vars

\* the users that carry an email
WithEmail(tbl, email) == {i \in DOMAIN tbl : tbl[i].email = email}

\* a run of create-admin that found no user with the email added one
\* user with that email and role admin
AdminAdded(email, phone, password) ==
    /\ last'.res = "created"
    /\ accounts' =
           [accounts EXCEPT !.user =
               Append(@, [email |-> email, phone |-> phone,
                          password |-> generate_password_hash(password),
                          role |-> UserRole("admin")])]
    /\ Cardinality(WithEmail(accounts'.user, email)) = 1

\* a run of create-admin that found a user with the email changed nothing
\* and said so
AdminExists(email) ==
    /\ last'.res = "exists"
    /\ accounts' = accounts
    /\ Cardinality(WithEmail(accounts'.user, email)) = 1

\* C35 as stated: create-admin changes nothing and reports that the user
\* exists when a user has the email; otherwise it adds exactly one user,
\* with role admin whatever the role argument; after a run exactly one
\* user has the email, however often the command is repeated.
C35_CreateAdminPerEmail ==
    [][last'.op = "create-admin"
          => \A email \in Emails, password \in AdminPasswords,
                phone \in Phones, role \in SignupRoles :
                 create_admin(email, password, phone, role)
                     => IF EmailTaken(email)
                        THEN AdminExists(email)
                        ELSE AdminAdded(email, phone, password)]_vars

\* C35 amended: as above when no user has the email and no user has the
\* phone; when no user has the email but the phone belongs to a user, the
\* commit fails on the unique phone column and no user is added.
C35_CreateAdminPerEmailAndPhone ==
    [][last'.op = "create-admin"
          => \A email \in Emails, password \in AdminPasswords,
                phone \in Phones, role \in SignupRoles :
                 create_admin(email, password, phone, role)
                     => IF EmailTaken(email)
                        THEN AdminExists(email)
                        ELSE IF PhoneTaken(phone)
                        THEN /\ last'.res = "IntegrityError"
                             /\ accounts' = accounts
                        ELSE AdminAdded(email, phone, password)]_vars

C35_Witness ==
    /\ last.op = "create-admin"
    /\ last.res = "exists"
    /\ last.user = 6
    /\ accounts.user[6].role = UserRole("admin")
    /\ Cardinality(WithEmail(accounts.user, accounts.user[6].email)) = 1

\* the rows of the User table that a step added
NewUsers == DOMAIN accounts'.user \ DOMAIN accounts.user

WorkerStatuses ==
    {"claimed", "picked_up", "in_progress", "delivered", "completed"}

\* C37: in every state reached by requests that run one after the other,
\* an order in status claimed, picked_up, in_progress, delivered or
\* completed has a worker; an order without worker is in status created
\* or cancelled.
C37_WorkedOrdersHaveWorker ==
    \A o \in DOMAIN orders :
        /\ orders[o].status \in WorkerStatuses
              => orders[o].worker_id \in Workers
        /\ orders[o].worker_id = Null
              => orders[o].status \in {"created", "cancelled"}

C37_Witness ==
    /\ last.op = "update"
    /\ last.res = "ok"
    /\ orders[last.order].status = "in_progress"
    /\ orders[last.order].worker_id = last.user
    /\ orders[last.order].created_by \in Customers

\* C38: in every reachable state an order with a cancellation_fee other
\* than 0 has status cancelled.
C38_FeeOnlyOnCancelled ==
    \A o \in DOMAIN orders :
        orders[o].cancellation_fee # 0 => orders[o].status = "cancelled"

\* C39: a cancel_order call on an order that is already cancelled leaves
\* the order's cancellation_fee at the value the first cancellation
\* wrote, at whatever instant before pickup_time it is made.
C39_RepeatedCancelKeepsFee ==
    [][(/\ last'.op \in CancelOps
        /\ last'.order \in DOMAIN orders
        /\ orders[last'.order].status = "cancelled")
          => orders'[last'.order].cancellation_fee
                 = orders[last'.order].cancellation_fee]_vars
====
